---- MODULE Spec2Model ----
(***************************************************************************)
(* The shared-terminal multiplexer of src/collab-terminal/server.py.       *)
(*                                                                         *)
(* The server is one asyncio event loop.  A coroutine runs without         *)
(* interruption from one await to the next, so every action below is the   *)
(* code between two awaits of one task: a connection handler               *)
(* (websocket_endpoint) or an output pump (read_pty).  The awaits are      *)
(* websocket.accept, websocket.receive_text, every ws.send_text inside     *)
(* broadcast_users / broadcast_output, and asyncio.sleep in read_pty.      *)
(*                                                                         *)
(* One room name is modelled (room_id is fixed): every claim is about one  *)
(* room, and rooms of different names share no state.                      *)
(***************************************************************************)
EXTENDS Integers, FiniteSets, Sequences, TLC

\* Bounds of the model.
NumSessions == 3    \* connections that may ever be opened
MaxSpawns == 2      \* forks of /bin/bash that may ever happen
MaxChunks == 2      \* chunks that os.read may ever return
NumFds == 2         \* descriptor numbers pty.openpty may hand out
MaxStalled == 1     \* connections whose sends may hang for ever
NumSizes == 2       \* window sizes a resize message may carry
MaxBytes == 4       \* bytes the shell writes to its terminal

Sessions == 1..NumSessions
Pids == 1..MaxSpawns
Fds == 1..NumFds
Chunks == 1..MaxChunks
Sizes == 1..NumSizes

\* Bounds of the model of src/burrow.py.
NumRabbits == 2     \* connections that may ever be opened
MaxHops == 102      \* market cycles that may ever run

\* deque(maxlen=100)
maxlen == 100

Rabbits == 1..NumRabbits

VARIABLES
    rooms,          \* rooms[room_id]: present, identity (gen) and content of the set
    pty_processes,  \* pty_processes[room_id]: present, master_fd, pid
    pc,             \* where each connection handler is
    bu,             \* the set iterator of the handler's running broadcast_users
    pump,           \* the read_pty tasks, one per fork
    child,          \* the forked children
    nread,          \* chunks read from a PTY so far
    got,            \* the chunk most recently sent to each session
    old,            \* the chunks whose broadcast had ended when the session was added
    stalled,        \* sessions whose transport never completes a send
    order,          \* the sessions in the order of their hash slots
    winsize,        \* the window size of the registered PTY (0: as opened)
    last,           \* the message most recently taken from a receive_text
    joined,         \* the identity of the set object each live session was added to
    leaked,         \* the masters that a teardown left open
    pty_out,        \* the bytes the shell has written that no os.read has returned
    consumed,       \* the bytes that os.read has returned
    delivered,      \* the text of the 'output' messages sent to a subscriber
    warren,         \* burrow.py: the connection pool
    slots,          \* burrow.py: the connections in the order of their hash slots
    rabbit,         \* burrow.py: where each connection handler is
    gone,           \* burrow.py: connections whose peer has gone, handler not yet told
    hopper,         \* burrow.py: the market_hopper task
    heard,          \* burrow.py: connections sent the market_hop of the current cycle
    hops,           \* burrow.py: market cycles produced so far
    hop_history,    \* burrow.py: the ring buffer, each hop by its production number
    rabbits_connected,  \* burrow.py: metrics.rabbits_connected
    burrow_closing  \* burrow.py: the shutdown event

\* The byte stream of one PTY and what a subscriber is sent of it.
bytes == <<pty_out, consumed, delivered>>

\* The state of src/collab-terminal/server.py.
terminal == <<rooms, pty_processes, pc, bu, pump, child, nread, got, old, stalled, order,
              winsize, last, joined, leaked, bytes>>

\* The state of src/burrow.py: a program of its own, whose variables stand
\* still in every step of the terminal server and the other way round.
burrow == <<warren, slots, rabbit, gone, hopper, heard, hops, hop_history,
            rabbits_connected, burrow_closing>>

vars == <<terminal, burrow>>

-----------------------------------------------------------------------------
(* Python's set iterator (for ws in rooms[room_id]).  A set is a hash      *)
(* table: a WebSocket hashes by identity, so it sits in an arbitrary slot  *)
(* that is its own for as long as it is in the set, and an iterator scans  *)
(* the slots in order.  Only the order of the slots matters: order lists   *)
(* the sessions by slot.                                                   *)

\* No iteration in progress.
NoIter == [gen |-> 0, orig |-> {}, visited |-> {}, cur |-> 0]

\* The content of the set object with identity g.  A set object that was
\* deleted from rooms was empty when deleted and is never written again.
SetOf(r, g) == IF r.present /\ r.gen = g THEN r.members ELSE {}

\* iter(rooms[room_id]): remembers the set object and its size (si_used).
IterStart(r) == [gen |-> r.gen, orig |-> r.members, visited |-> {}, cur |-> 0]

\* A mutant: an iterator that does not notice a change of size.
SetChangedUnnoticed(r, i) == FALSE

\* next() raises RuntimeError("Set changed size during iteration") when the
\* set's size differs from the size it had when the iteration began.
SetChanged(r, i) == Cardinality(SetOf(r, i.gen)) # Cardinality(i.orig)

\* The place of session x's slot in table layout ord (0: before every slot).
Rank(ord, x) == IF x = 0 THEN 0 ELSE CHOOSE k \in 1..Len(ord) : ord[k] = x

\* The outcomes of one next() on iterator i: the iterator scans the table
\* from its position for the next slot in use.
IterNext(r, ord, i) ==
    IF SetChanged(r, i)
    THEN {[kind |-> "raise", it |-> NoIter]}
    ELSE LET cand == {x \in SetOf(r, i.gen) : Rank(ord, x) > Rank(ord, i.cur)}
         IN  IF cand = {}
             THEN {[kind |-> "stop", it |-> NoIter]}
             ELSE LET x == CHOOSE y \in cand : \A z \in cand : Rank(ord, y) <= Rank(ord, z)
                  IN {[kind |-> "yield", it |-> [i EXCEPT !.visited = @ \cup {x}, !.cur = x]]}

-----------------------------------------------------------------------------
(* State.                                                                  *)

NoRoom(g) == [present |-> FALSE, gen |-> g, members |-> {}]
NoPty == [present |-> FALSE, fd |-> 0, pid |-> 0]
NoPump == [pc |-> "none", fd |-> 0, chunk |-> 0, it |-> NoIter, disconnected |-> {}]
NoMsg == [s |-> 0, type |-> "none", arg |-> 0, res |-> "none", prev |-> 0]

\* market_hopper between two cycles (in asyncio.sleep, or not yet run).
NoHopper == [pc |-> "sleep", it |-> NoIter, disconnected |-> {}]

\* The module-level state of burrow.py and the task that lifespan creates.
BurrowStart ==
    /\ warren = {}
    /\ slots = <<>>
    /\ rabbit = [r \in Rabbits |-> "idle"]
    /\ gone = {}
    /\ hopper = NoHopper
    /\ heard = {}
    /\ hops = 0
    /\ hop_history = <<>>
    /\ rabbits_connected = 0
    /\ burrow_closing = FALSE

\* The state of the server at its start, the shell's output being out.
Start(out) ==
    /\ rooms = NoRoom(0)
    /\ pty_processes = NoPty
    /\ pc = [s \in Sessions |-> "idle"]
    /\ bu = [s \in Sessions |-> NoIter]
    /\ pump = [p \in Pids |-> NoPump]
    /\ child = [p \in Pids |-> "none"]
    /\ nread = 0
    /\ got = [s \in Sessions |-> 0]
    /\ old = [s \in Sessions |-> {}]
    /\ stalled = {}
    /\ order = <<>>
    /\ winsize = 0
    /\ last = NoMsg
    /\ joined = [s \in Sessions |-> 0]
    /\ leaked = {}
    /\ pty_out = out
    /\ consumed = <<>>
    /\ delivered = <<>>
    /\ BurrowStart

Init == Start(<<>>)

\* The handler of session s has ended (returned or raised).
Ended(s) == pc[s] \in {"done", "crashed"}

\* Forks so far.
NSpawned == Cardinality({p \in Pids : child[p] # "none"})

\* Chunks whose broadcast_output call has ended.
Completed == {c \in 1..nread : \A p \in Pids : ~(pump[p].pc = "send" /\ pump[p].chunk = c)}

-----------------------------------------------------------------------------
(* websocket_endpoint: the connection handler.                             *)

\* await websocket.accept() returns for session s.  Connections are
\* interchangeable, so they are numbered in the order they are accepted.
Accepted(s) == pc[s] = "idle" /\ \A t \in 1..(s - 1) : pc[t] # "idle"

\* got, old and joined observe live sessions only: they are cleared for a
\* session whose handler has ended (nothing is delivered on a closed
\* connection).
Forget(h, none, pcs) ==
    [x \in Sessions |-> IF pcs[x] \in {"done", "crashed"} THEN none ELSE h[x]]

\* master_fd of pty.openpty(): a descriptor number that is not open.  No
\* master is open when the handler forks, so the number is one that an
\* earlier fork was given and that was closed since, or a number never
\* given before (numbers are named in the order they first appear).
OpenPty == {fd \in Fds : fd <= NSpawned + 1 /\ fd \notin leaked}

\* A mutant: the handler forks without looking at pty_processes.
SpawnAlways(p) == TRUE

\* A mutant: the handler never forks.
SpawnNever(p) == FALSE

\* if room_id not in pty_processes
NeedsSpawn(p) == ~p.present

\* rooms[room_id].add(websocket), creating the set on the first join.
AddToRoom(r, s) ==
    IF r.present
    THEN [r EXCEPT !.members = @ \cup {s}]
    ELSE [present |-> TRUE, gen |-> r.gen + 1, members |-> {s}]

\* The table layout with s in slot k.
InsertAt(ord, k, s) == SubSeq(ord, 1, k - 1) \o <<s>> \o SubSeq(ord, k, Len(ord))

\* rooms[room_id].discard(websocket)
DiscardFromRoom(r, s) == [r EXCEPT !.members = @ \ {s}]

\* The start of broadcast_users on rooms value r, up to its first await:
\* count = len(rooms[room_id]) and the first ws.send_text is called.
\* "stop" when the set is empty (no send, no await).
UsersStart(r, ord) == IterNext(r, ord, IterStart(r))

\* The count that the running broadcast_users of an iterator carries.
UsersCount(i) == Cardinality(i.orig)

\* os.kill(pid, 9) raises ProcessLookupError when no process has that pid:
\* the child has exited and the host has reaped it (the source never waits
\* for its children, so whether an exited child is still there to be
\* signalled is the host's doing).
KillMayRaise(p) == child[p] = "exited"

\* A mutant: a clean-up that deletes the rooms entry and leaves the
\* pty_processes entry.
CleanupRoomOnly(s, r) ==
    /\ rooms' = IF r.present /\ r.members = {} THEN NoRoom(r.gen) ELSE r
    /\ pc' = [pc EXCEPT ![s] = "done"]
    /\ UNCHANGED <<pty_processes, child, winsize, leaked>>

\* The clean-up at the end of the finally block, on rooms value r:
\* if not rooms[room_id]: del rooms[room_id]; kill, close, del pty_processes.
Cleanup(s, r) ==
    IF ~r.present
    THEN \* rooms[room_id] raises KeyError
         /\ rooms' = r
         /\ pc' = [pc EXCEPT ![s] = "crashed"]
         /\ UNCHANGED <<pty_processes, child, winsize, leaked>>
    ELSE IF r.members = {}
    THEN /\ rooms' = NoRoom(r.gen)
         /\ pty_processes' = NoPty
         /\ winsize' = 0
         /\ pc' = [pc EXCEPT ![s] = "done"]
         /\ IF ~pty_processes.present
            THEN UNCHANGED <<child, leaked>>
            ELSE \/ \* os.kill and os.close return
                    /\ child' = [child EXCEPT ![pty_processes.pid] = "killed"]
                    /\ UNCHANGED leaked
                 \/ \* os.kill raises: os.close is skipped, except: pass
                    /\ KillMayRaise(pty_processes.pid)
                    /\ child' = [child EXCEPT ![pty_processes.pid] = "reaped"]
                    /\ leaked' = leaked \cup {pty_processes.fd}
    ELSE /\ rooms' = r
         /\ pc' = [pc EXCEPT ![s] = "done"]
         /\ UNCHANGED <<pty_processes, child, winsize, leaked>>

\* accept() has returned: the handler adds itself to the room, forks the
\* shell when the room has no process entry, and starts broadcast_users.
\* None of this awaits before the first send of broadcast_users.
Join(s) ==
    /\ Accepted(s)
    /\ \E k \in 1..(Len(order) + 1) : order' = InsertAt(order, k, s)
    /\ LET r1 == AddToRoom(rooms, s) IN
       /\ rooms' = r1
       /\ old' = [old EXCEPT ![s] = Completed]
       /\ joined' = [joined EXCEPT ![s] = r1.gen]
       /\ IF NeedsSpawn(pty_processes)
          THEN /\ NSpawned < MaxSpawns
               /\ \E fd \in OpenPty :
                    LET pid == NSpawned + 1 IN
                    /\ pty_processes' = [present |-> TRUE, fd |-> fd, pid |-> pid]
                    /\ child' = [child EXCEPT ![pid] = "running"]
                    /\ pump' = [pump EXCEPT ![pid] = [NoPump EXCEPT !.pc = "wait", !.fd = fd]]
          ELSE UNCHANGED <<pty_processes, child, pump>>
       /\ \E o \in UsersStart(r1, order') :
            /\ o.kind = "yield"
            /\ bu' = [bu EXCEPT ![s] = o.it]
            /\ pc' = [pc EXCEPT ![s] = "join_bu"]
    /\ UNCHANGED <<nread, got, stalled, winsize, last, leaked, bytes, burrow>>

\* pty.openpty() or os.fork() raises on the first join: the exception leaves
\* the handler at once, after rooms[room_id].add(websocket).
JoinSpawnFails(s) ==
    /\ Accepted(s)
    /\ NeedsSpawn(pty_processes)
    /\ rooms' = AddToRoom(rooms, s)
    /\ \E k \in 1..(Len(order) + 1) : order' = InsertAt(order, k, s)
    /\ pc' = [pc EXCEPT ![s] = "crashed"]
    /\ UNCHANGED <<pty_processes, child, pump, bu, nread, got, old, stalled, winsize, last, joined, leaked, bytes, burrow>>

\* A send of broadcast_users returns (or raises, which the loop ignores)
\* and the loop goes on to the next ws.
UsersStep(s) ==
    /\ pc[s] \in {"join_bu", "leave_bu"}
    /\ bu[s].cur \notin stalled
    /\ \E o \in IterNext(rooms, order, bu[s]) :
         /\ bu' = [bu EXCEPT ![s] = o.it]
         /\ CASE o.kind = "yield" ->
                   UNCHANGED <<rooms, pty_processes, child, pc, winsize, leaked>>
              [] o.kind = "raise" ->
                   \* RuntimeError: at line 196 it is outside the try, at
                   \* line 216 it skips the clean-up
                   /\ pc' = [pc EXCEPT ![s] = "crashed"]
                   /\ UNCHANGED <<rooms, pty_processes, child, winsize, leaked>>
              [] o.kind = "stop" /\ pc[s] = "join_bu" ->
                   /\ pc' = [pc EXCEPT ![s] = "recv"]
                   /\ UNCHANGED <<rooms, pty_processes, child, winsize, leaked>>
              [] o.kind = "stop" /\ pc[s] = "leave_bu" ->
                   Cleanup(s, rooms)
    /\ got' = Forget(got, 0, pc')
    /\ old' = Forget(old, {}, pc')
    /\ joined' = Forget(joined, 0, pc')
    /\ UNCHANGED <<pump, nread, stalled, order, last, bytes, burrow>>

\* The finally block, up to the first await of its broadcast_users.  What
\* brought the handler there is the caller's to say (last).
Finally(s) ==
    /\ pc[s] = "recv"
    /\ IF ~rooms.present
       THEN \* rooms[room_id] raises KeyError at line 215
            /\ pc' = [pc EXCEPT ![s] = "crashed"]
            /\ UNCHANGED <<rooms, pty_processes, child, bu, winsize, leaked>>
       ELSE LET r1 == DiscardFromRoom(rooms, s) IN
            \E o \in UsersStart(r1, order) :
               IF o.kind = "yield"
               THEN /\ rooms' = r1
                    /\ bu' = [bu EXCEPT ![s] = o.it]
                    /\ pc' = [pc EXCEPT ![s] = "leave_bu"]
                    /\ UNCHANGED <<pty_processes, child, winsize, leaked>>
               ELSE /\ Cleanup(s, r1)
                    /\ UNCHANGED bu
    /\ got' = Forget(got, 0, pc')
    /\ old' = Forget(old, {}, pc')
    /\ joined' = Forget(joined, 0, pc')
    /\ UNCHANGED <<pump, nread, stalled, order, bytes, burrow>>

\* receive_text raises WebSocketDisconnect.
Disconnect(s) == Finally(s) /\ UNCHANGED last

\* Processing a message raises (json.loads, msg['type'], os.write, ioctl),
\* whatever the message was.
MessageError(s) == Finally(s) /\ UNCHANGED last

-----------------------------------------------------------------------------
(* The receive loop, message by message.  One turn of the loop runs from   *)
(* the return of receive_text to the next receive_text without an await.   *)
(* An exception other than WebSocketDisconnect is caught nowhere: it runs  *)
(* the finally block and leaves the handler.                               *)

\* A mutant: the handler uses pty_processes[room_id] without the test.
HasPtyUntested(p) == TRUE

\* ... and room_id in pty_processes (lines 203 and 207)
HasPty(p) == p.present

\* A mutant: a window size, once set, stays.
SetWinsizeOnce(w, sz) == IF w = 0 THEN sz ELSE w

\* fcntl.ioctl(master_fd, termios.TIOCSWINSZ, winsize): the size of the PTY
\* afterwards, from its size w before and the size sz of the message.
SetWinsize(w, sz) == sz

\* os.write or ioctl on the master of a PTY whose child has exited (no
\* slave side is open any more) may raise OSError: the platform decides.
MayRaiseOSError == pty_processes.present /\ child[pty_processes.pid] = "exited"

\* The record of a message of session s and of what became of it:
\* "applied" when os.write or ioctl was called and returned, "ignored" when
\* neither branch of the loop was taken, "raised" when the turn of the loop
\* ended with an exception.  prev is the window size when it arrived.
Msg(s, type, arg, res) ==
    [s |-> s, type |-> type, arg |-> arg, res |-> res, prev |-> winsize]

\* The turn of the loop ends with an exception: the finally block.
Raises(s, type, arg) == Finally(s) /\ last' = Msg(s, type, arg, "raised")

\* The turn of the loop ends at the next receive_text.
Returns(s, type, arg, res) ==
    /\ last' = Msg(s, type, arg, res)
    /\ UNCHANGED <<rooms, pty_processes, pc, bu, pump, child, nread, got, old, stalled, order, joined, leaked, bytes, burrow>>

\* {"type": "input", "data": ...} arrives: os.write to the registered master.
Input(s) ==
    /\ pc[s] = "recv"
    /\ IF HasPty(pty_processes)
       THEN IF ~pty_processes.present
            THEN \* pty_processes[room_id] raises KeyError
                 Raises(s, "input", 0)
            ELSE \/ Returns(s, "input", 0, "applied") /\ UNCHANGED winsize
                 \/ MayRaiseOSError /\ Raises(s, "input", 0)
       ELSE Returns(s, "input", 0, "ignored") /\ UNCHANGED winsize

\* {"type": "resize", "rows": ..., "cols": ...} arrives: TIOCSWINSZ on the
\* registered master.  sz stands for the pair (rows, cols).
Resize(s, sz) ==
    /\ pc[s] = "recv"
    /\ IF HasPty(pty_processes)
       THEN IF ~pty_processes.present
            THEN Raises(s, "resize", sz)
            ELSE \/ Returns(s, "resize", sz, "applied") /\ winsize' = SetWinsize(winsize, sz)
                 \/ MayRaiseOSError /\ Raises(s, "resize", sz)
       ELSE Returns(s, "resize", sz, "ignored") /\ UNCHANGED winsize

\* Text that is not JSON, or JSON without 'type', arrives: json.loads
\* raises ValueError, msg['type'] raises KeyError.
Malformed(s) ==
    /\ pc[s] = "recv"
    /\ Raises(s, "malformed", 0)

-----------------------------------------------------------------------------
(* read_pty and broadcast_output: the output pump.                         *)

\* A mutant: os.read that does not consume: the read returns the chunk that
\* was read before.
ReadChunkAgain(n) == IF n = 0 THEN 1 ELSE n

\* data = os.read(master_fd, 4096): the next chunk of the PTY's output.
ReadChunk(n) == n + 1

\* select/os.read on descriptor number fd reach a live PTY only when that
\* number is the registered master (a master that a teardown left open is
\* the master of a dead PTY: its read fails like one on a closed number).
\* A number that was closed and handed out again by pty.openpty() reaches
\* the new PTY.
FdOpen(fd) == pty_processes.present /\ pty_processes.fd = fd

\* ws.send_text(message) of chunk c is called for session x.
Deliver(g, x, c) == [g EXCEPT ![x] = IF Ended(x) THEN 0 ELSE c]

PumpWaiting(p) == [NoPump EXCEPT !.pc = "wait", !.fd = pump[p].fd]
PumpEnded == [NoPump EXCEPT !.pc = "ended"]

\* One turn of the while loop of read_pty, from the loop test to the first
\* await: the task's start or its return from asyncio.sleep(0.01).
PumpWake(p) ==
    /\ pump[p].pc = "wait"
    /\ IF ~pty_processes.present
       THEN \* while room_id in pty_processes: false
            /\ pump' = [pump EXCEPT ![p] = PumpEnded]
            /\ UNCHANGED <<rooms, nread, got>>
       ELSE IF ~FdOpen(pump[p].fd)
       THEN \* select on a closed descriptor raises; except: break
            /\ pump' = [pump EXCEPT ![p] = PumpEnded]
            /\ UNCHANGED <<rooms, nread, got>>
       ELSE \/ \* os.read returns b"" or raises EIO: the child has exited
               /\ child[pty_processes.pid] = "exited"
               /\ pump' = [pump EXCEPT ![p] = PumpEnded]
               /\ UNCHANGED <<rooms, nread, got>>
            \/ \* os.read returns data: broadcast_output
               /\ nread < MaxChunks
               /\ LET c == ReadChunk(nread) IN
                  /\ nread' = nread + 1
                  /\ IF ~rooms.present
                     THEN UNCHANGED <<rooms, pump, got>>
                     ELSE \E o \in IterNext(rooms, order, IterStart(rooms)) :
                            IF o.kind = "yield"
                            THEN /\ pump' = [pump EXCEPT ![p] =
                                        [pc |-> "send", fd |-> pump[p].fd, chunk |-> c,
                                         it |-> o.it, disconnected |-> {}]]
                                 /\ got' = Deliver(got, o.it.cur, c)
                                 /\ UNCHANGED rooms
                            ELSE \* empty set: rooms[room_id] -= set()
                                 UNCHANGED <<rooms, pump, got>>
    /\ UNCHANGED <<pty_processes, pc, bu, child, old, stalled, order, winsize, last, joined, leaked, bytes, burrow>>

\* A send to a session whose handler has ended raises: its connection is
\* closed.  A send to a live session returns or raises (the peer is gone).
SendMayReturn(s) == ~Ended(s)

\* A send of broadcast_output returns or raises, and the loop goes on.
PumpStep(p) ==
    /\ pump[p].pc = "send"
    /\ pump[p].it.cur \notin stalled
    /\ \E failed \in BOOLEAN :
         /\ ~failed => SendMayReturn(pump[p].it.cur)
         /\ LET d1 == pump[p].disconnected \cup
                         (IF failed THEN {pump[p].it.cur} ELSE {})
            IN \E o \in IterNext(rooms, order, pump[p].it) :
                 CASE o.kind = "yield" ->
                        /\ pump' = [pump EXCEPT ![p].it = o.it, ![p].disconnected = d1]
                        /\ got' = Deliver(got, o.it.cur, pump[p].chunk)
                        /\ UNCHANGED rooms
                   [] o.kind = "raise" ->
                        \* RuntimeError leaves broadcast_output; except: break
                        /\ pump' = [pump EXCEPT ![p] = PumpEnded]
                        /\ UNCHANGED <<rooms, got>>
                   [] o.kind = "stop" ->
                        \* rooms[room_id] -= disconnected, then asyncio.sleep
                        IF ~rooms.present
                        THEN /\ pump' = [pump EXCEPT ![p] = PumpEnded]
                             /\ UNCHANGED <<rooms, got>>
                        ELSE /\ rooms' = [rooms EXCEPT !.members = @ \ d1]
                             /\ pump' = [pump EXCEPT ![p] = PumpWaiting(p)]
                             /\ UNCHANGED got
    /\ UNCHANGED <<pty_processes, pc, bu, child, nread, old, stalled, order, winsize, last, joined, leaked, bytes, burrow>>

\* The shell exits on its own (exit, Ctrl-D).
ChildExit(p) ==
    /\ child[p] = "running"
    /\ child' = [child EXCEPT ![p] = "exited"]
    /\ UNCHANGED <<rooms, pty_processes, pc, bu, pump, nread, got, old, stalled, order,
                   winsize, last, joined, leaked, bytes, burrow>>

-----------------------------------------------------------------------------
Next ==
    \/ \E s \in Sessions : Join(s)
    \/ \E s \in Sessions : JoinSpawnFails(s)
    \/ \E s \in Sessions : UsersStep(s)
    \/ \E s \in Sessions : Disconnect(s)
    \/ \E s \in Sessions : MessageError(s)
    \/ \E p \in Pids : PumpWake(p)
    \/ \E p \in Pids : PumpStep(p)
    \/ \E p \in Pids : ChildExit(p)

Spec == Init /\ [][Next]_vars

\* The same, with the messages told apart.  A message that does not raise
\* changes nothing of what Next is about, so the chunks and the connections
\* are bounded lower here to make room for the messages.
MsgChunks == 1
MsgSessions == 2

NextMsg ==
    \/ /\ Next
       /\ nread' <= MsgChunks
       /\ \A s \in Sessions : s > MsgSessions => pc'[s] = "idle"
    \/ \E s \in Sessions : Input(s)
    \/ \E s \in Sessions : \E sz \in Sizes : Resize(s, sz)
    \/ \E s \in Sessions : Malformed(s)

SpecMsg == Init /\ [][NextMsg]_vars

\* Every connection, with the input messages only: the messages of a
\* session that outlives the room instance it joined.
NextInput ==
    \/ Next /\ nread' <= MsgChunks
    \/ \E s \in Sessions : Input(s)

SpecInput == Init /\ [][NextInput]_vars

-----------------------------------------------------------------------------
(* What the bytes of the shell become on their way to a subscriber:        *)
(* data.decode('utf-8', errors='replace') on every chunk that os.read      *)
(* returns, then json.dumps and ws.send_text.                              *)

\* The bytes, by their role in UTF-8: "a" is an ASCII byte, "L" the lead
\* byte of a two-byte character, "C" a continuation byte.
Bytes == {"a", "L", "C"}

\* The byte sequences of a length up to n.
ByteSeqs(n) == UNION {[1..k -> Bytes] : k \in 0..n}

\* bytes.decode('utf-8', errors='replace'): the characters of b.  "a" is
\* the ASCII character, "LC" the two-byte character, "?" is U+FFFD, which
\* stands in for every byte that is not part of a complete character.
RECURSIVE Decode(_)
Decode(b) ==
    IF b = <<>> THEN <<>>
    ELSE IF b[1] = "a" THEN <<"a">> \o Decode(Tail(b))
    ELSE IF b[1] = "L" /\ Len(b) >= 2 /\ b[2] = "C"
         THEN <<"LC">> \o Decode(Tail(Tail(b)))
    ELSE <<"?">> \o Decode(Tail(b))

\* str.encode('utf-8'): the bytes of text, as the subscriber's terminal
\* takes them.  "F" is the three-byte encoding of U+FFFD.
RECURSIVE Encode(_)
Encode(text) ==
    IF text = <<>> THEN <<>>
    ELSE (CASE text[1] = "a" -> <<"a">>
            [] text[1] = "LC" -> <<"L", "C">>
            [] text[1] = "?" -> <<"F">>) \o Encode(Tail(text))

\* os.read(master_fd, 4096) returns the first n bytes of what the shell has
\* written, and broadcast_output sends their decoding.
ReadBytes(n) ==
    /\ n \in 1..Len(pty_out)
    /\ LET data == SubSeq(pty_out, 1, n) IN
       /\ consumed' = consumed \o data
       /\ delivered' = delivered \o Decode(data)
       /\ pty_out' = SubSeq(pty_out, n + 1, Len(pty_out))
    /\ UNCHANGED <<rooms, pty_processes, pc, bu, pump, child, nread, got, old, stalled, order,
                   winsize, last, joined, leaked, burrow>>

NextBytes == \E n \in 1..MaxBytes : ReadBytes(n)

InitBytes == \E out \in ByteSeqs(MaxBytes) : Start(out)

SpecBytes == InitBytes /\ [][NextBytes]_vars

-----------------------------------------------------------------------------
(* Liveness.  The event loop runs every task that is ready, so the steps   *)
(* of the pumps and of the handlers' broadcasts are weakly fair.  What the *)
(* peers do (connect, disconnect, send a message, stop reading) and when   *)
(* the shell exits is not.                                                 *)

\* The peer of subscriber s stops reading and its transport's buffer fills:
\* from now on an awaited ws.send_text to s does not return.  No send in
\* the source has a timeout.
Stall(s) ==
    /\ rooms.present /\ s \in rooms.members
    /\ ~Ended(s)
    /\ s \notin stalled
    /\ Cardinality(stalled) < MaxStalled
    /\ stalled' = stalled \cup {s}
    /\ UNCHANGED <<rooms, pty_processes, pc, bu, pump, child, nread, got, old, order,
                   winsize, last, joined, leaked, bytes, burrow>>

NextStall ==
    \/ \E s \in Sessions : Join(s)
    \/ \E s \in Sessions : UsersStep(s)
    \/ \E s \in Sessions : Disconnect(s)
    \/ \E s \in Sessions : Stall(s)
    \/ \E p \in Pids : PumpWake(p)
    \/ \E p \in Pids : PumpStep(p)

Fairness ==
    /\ \A p \in Pids : WF_vars(PumpWake(p)) /\ WF_vars(PumpStep(p))
    /\ \A s \in Sessions : WF_vars(UsersStep(s))

SpecStall == Init /\ [][NextStall]_vars /\ Fairness

-----------------------------------------------------------------------------
(* src/burrow.py: the market broadcaster, its connection pool and its ring *)
(* buffer.  One event loop again: market_hopper awaits in every            *)
(* rabbit.send_text of its broadcast and in asyncio.sleep, a connection    *)
(* handler in accept, send_text and receive_text.  A turn of the receive   *)
(* loop that answers a ping or sends a heartbeat changes nothing of the    *)
(* pool, the counter or the buffer and is no action here; the stocks and   *)
(* the other counters of metrics are left out, a hop is known by its       *)
(* production number.                                                      *)

\* warren as the iterator operators take a set: one set object, never
\* replaced.
Pool(w) == [present |-> TRUE, gen |-> 1, members |-> w]

\* await websocket.accept() returns for connection r (connections are
\* numbered in the order they are accepted).
RabbitAccepted(r) == rabbit[r] = "idle" /\ \A t \in 1..(r - 1) : rabbit[t] # "idle"

\* accept() has returned: warren.add(websocket), the counter is set, and
\* the handler awaits the send of its welcome.
Connect(r) ==
    /\ RabbitAccepted(r)
    /\ \E k \in 1..(Len(slots) + 1) : slots' = InsertAt(slots, k, r)
    /\ warren' = warren \cup {r}
    /\ rabbits_connected' = Cardinality(warren')
    /\ rabbit' = [rabbit EXCEPT ![r] = "welcome"]
    /\ UNCHANGED <<gone, hopper, heard, hops, hop_history, burrow_closing, terminal>>

\* The welcome is sent: the handler enters its receive loop.
Welcome(r) ==
    /\ rabbit[r] = "welcome"
    /\ r \notin gone
    /\ rabbit' = [rabbit EXCEPT ![r] = "open"]
    /\ UNCHANGED <<warren, slots, gone, hopper, heard, hops, hop_history,
                   rabbits_connected, burrow_closing, terminal>>

\* The peer of r goes away (or lifespan closes the connection at shutdown):
\* from now on a send to r raises, and r's handler is woken with the
\* disconnect when the event loop next runs it.
ClientGone(r) ==
    /\ rabbit[r] \in {"welcome", "open"}
    /\ r \notin gone
    /\ gone' = gone \cup {r}
    /\ UNCHANGED <<warren, slots, rabbit, hopper, heard, hops, hop_history,
                   rabbits_connected, burrow_closing, terminal>>

\* The finally block: warren.discard(websocket) and the counter is set.
RabbitFinally(r) ==
    /\ warren' = warren \ {r}
    /\ rabbits_connected' = Cardinality(warren')
    /\ rabbit' = [rabbit EXCEPT ![r] = "done"]
    /\ gone' = gone \ {r}
    /\ UNCHANGED <<slots, hopper, heard, hops, hop_history, burrow_closing, terminal>>

\* The handler of r is told: its send_text raises, or its receive_text
\* raises WebSocketDisconnect.
RabbitDisconnect(r) ==
    /\ rabbit[r] \in {"welcome", "open"}
    /\ r \in gone
    /\ RabbitFinally(r)

\* json.loads or msg.get raises on what the peer sent: the exception runs
\* the finally block on its way out of the handler.
RabbitBadMessage(r) ==
    /\ rabbit[r] = "open"
    /\ r \notin gone
    /\ RabbitFinally(r)

\* A mutant: a deque without maxlen.
DequeAppendUnbounded(h, x) == Append(h, x)

\* hop_history.append(...) on a deque(maxlen=100): a full deque drops its
\* leftmost entry.
DequeAppend(h, x) == IF Len(h) >= maxlen THEN Append(Tail(h), x) ELSE Append(h, x)

\* rabbit.send_text raises for x: the peer is gone, or the handler of x
\* has ended and the connection is closed.
SendFails(x) == x \in gone \/ rabbit[x] = "done"

\* One cycle of market_hopper from the loop test to its first await: the
\* stocks hop, the hop is appended to hop_history, and with a non-empty
\* warren the broadcast starts with its first send; with an empty warren
\* the task goes to sleep again.
HopperCycle ==
    /\ hopper.pc = "sleep"
    /\ ~burrow_closing
    /\ hops < MaxHops
    /\ hops' = hops + 1
    /\ hop_history' = DequeAppend(hop_history, hops + 1)
    /\ heard' = {}
    /\ IF warren = {}
       THEN hopper' = NoHopper
       ELSE \E o \in IterNext(Pool(warren), slots, IterStart(Pool(warren))) :
               /\ o.kind = "yield"
               /\ hopper' = [pc |-> "send", it |-> o.it, disconnected |-> {}]
    /\ UNCHANGED <<warren, slots, rabbit, gone, rabbits_connected, burrow_closing, terminal>>

\* A send of the broadcast returns or raises, and the for statement asks
\* the set iterator for the next rabbit.  A RuntimeError of the iterator is
\* raised outside the try of the loop body and ends the task; at the end
\* of the loop the failed connections are removed and the task sleeps.
HopperStep ==
    /\ hopper.pc = "send"
    /\ LET x == hopper.it.cur
           d == IF SendFails(x) THEN hopper.disconnected \cup {x} ELSE hopper.disconnected
       IN  /\ heard' = IF SendFails(x) THEN heard ELSE heard \cup {x}
           /\ \E o \in IterNext(Pool(warren), slots, hopper.it) :
                CASE o.kind = "yield" ->
                       /\ hopper' = [pc |-> "send", it |-> o.it, disconnected |-> d]
                       /\ UNCHANGED warren
                  [] o.kind = "raise" ->
                       /\ hopper' = [NoHopper EXCEPT !.pc = "raised"]
                       /\ UNCHANGED warren
                  [] o.kind = "stop" ->
                       /\ hopper' = NoHopper
                       /\ warren' = warren \ d
    /\ UNCHANGED <<slots, rabbit, gone, hops, hop_history, rabbits_connected,
                   burrow_closing, terminal>>

\* Shutdown: lifespan sets burrow_closing and cancels the task (or
\* handle_signal sets it and exits).  A task that has raised stays as it is.
Close ==
    /\ ~burrow_closing
    /\ burrow_closing' = TRUE
    /\ hopper' = IF hopper.pc = "raised" THEN hopper ELSE [NoHopper EXCEPT !.pc = "cancelled"]
    /\ UNCHANGED <<warren, slots, rabbit, gone, heard, hops, hop_history,
                   rabbits_connected, terminal>>

NextBurrow ==
    \/ \E r \in Rabbits : Connect(r)
    \/ \E r \in Rabbits : Welcome(r)
    \/ \E r \in Rabbits : ClientGone(r)
    \/ \E r \in Rabbits : RabbitDisconnect(r)
    \/ \E r \in Rabbits : RabbitBadMessage(r)
    \/ HopperCycle
    \/ HopperStep
    \/ Close

SpecBurrow == Init /\ [][NextBurrow]_vars

-----------------------------------------------------------------------------
(* Properties.                                                             *)

\* In this step the running broadcast_users of session s calls ws.send_text.
UsersSent(s) == bu'[s].cur # 0 /\ bu'[s].visited # bu[s].visited

\* The broadcast_users call of session s is suspended in a send.
InUsers(s) == pc[s] \in {"join_bu", "leave_bu"}

\* C1: the count carried by every 'users' message equals the size of the
\* room's subscriber set at the moment ws.send_text is called with it, also
\* when joins and leaves overlap at the awaits of the broadcast.
C1_CountIsSetSize ==
    [][\A s \in Sessions :
         UsersSent(s) =>
            /\ rooms'.present
            /\ UsersCount(bu'[s]) = Cardinality(rooms'.members)]_vars

\* Two broadcasts are suspended at the same time, and one of them has gone
\* on after the set was changed under it: it is sending its count to a
\* session that joined after the broadcast began.
C1_Witness ==
    \E s, t \in Sessions :
       /\ s # t /\ InUsers(s) /\ InUsers(t)
       /\ bu[s].cur \in rooms.members \ bu[s].orig

\* The room's entry in rooms was deleted in this step.
TornDown == rooms.present /\ ~rooms'.present

\* C2: a room is torn down if and only if its subscriber set has returned
\* to empty: no room entry is ever left with an empty subscriber set,
\* whichever operation emptied it, and the only member a room has in the
\* step that tears it down is the session that leaves in that step.
C2_TornDownIffEmptied ==
    [][/\ rooms'.present => rooms'.members # {}
       /\ TornDown => \A x \in rooms.members : pc[x] = "recv" /\ Ended(x)']_vars

\* The children that were forked and not killed.
Unkilled == {p \in Pids : child[p] \in {"running", "exited"}}

\* C3: whatever the interleaving of the join handlers, the room has exactly
\* one forked child that was not killed while it has a pty_processes entry
\* (the child the entry names), and none otherwise.
C3_OneProcessPerRoom ==
    IF pty_processes.present
    THEN Unkilled = {pty_processes.pid}
    ELSE Unkilled = {}

\* Two joins of the room overlap: both handlers are suspended in the
\* broadcast of their join, and one shell was forked.
C3_Witness ==
    /\ pc[1] = "join_bu" /\ pc[2] = "join_bu"
    /\ NSpawned = 1
    /\ pty_processes.present

\* C4: chunks are numbered in the order they are read, and no session is
\* sent a chunk after it was sent a later one.
C4_ChunksInOrder ==
    [][\A x \in Sessions : (got[x] # 0 /\ got'[x] # 0) => got'[x] >= got[x]]_vars

\* C5: a session is never sent a chunk whose broadcast had already ended
\* when the session was added to the subscriber set.
C5_NoReplayToLateJoiner == \A x \in Sessions : got[x] \notin old[x]

\* A session that joined after the broadcast of chunk 1 had ended is being
\* sent chunk 2.
C5_Witness == \E x \in Sessions : old[x] = {1} /\ got[x] = 2

\* Pump p is suspended in the send of its chunk to a stalled session while
\* subscriber x, whose connection is sound and whose join is complete, has
\* not been sent the chunk.
BlockedBehind(p, x) ==
    /\ pump[p].pc = "send"
    /\ pump[p].it.cur \in stalled
    /\ x \in rooms.members \ stalled
    /\ x \notin pump[p].it.visited
    /\ pc[x] = "recv"

\* C6: a stalled subscriber does not block the others: whenever the pump is
\* suspended in a send to a stalled session, every other subscriber is
\* eventually sent the chunk (or has left), and the stalled session is
\* eventually dropped from the subscriber set.
C6_StalledDoesNotBlock ==
    \A p \in Pids : \A x \in Sessions :
       BlockedBehind(p, x) ~>
          (/\ x \in pump[p].it.visited \/ x \notin rooms.members \/ Ended(x)
           /\ rooms.members \cap stalled = {})

\* The broadcast_output call of pump p ends in this step.
OutputEnds(p) == pump[p].pc = "send" /\ pump'[p].pc # "send"

\* C7: a failed send is local: when a broadcast_output in which a send
\* failed ends, the sessions whose send failed are out of the subscriber
\* set, every other subscriber it began with has been sent the chunk, and
\* the pump goes on to its next read.
C7_SendFailureIsLocal ==
    [][\A p \in Pids :
         (OutputEnds(p) /\ pump[p].disconnected # {}) =>
            /\ pump'[p].pc = "wait"
            /\ rooms'.members \cap pump[p].disconnected = {}
            /\ (pump[p].it.orig \cap rooms.members) \subseteq pump[p].it.visited]_vars

\* The broadcast_users call of session s ends in this step.
UsersEnds(s) == InUsers(s) /\ pc'[s] \notin {"join_bu", "leave_bu"}

\* C8: when the count broadcast of a join or leave ends, every session that
\* was in the subscriber set after the operation and still is has been sent
\* the 'users' message of that operation.
C8_AllToldTheCount ==
    [][\A s \in Sessions :
         UsersEnds(s) =>
            (bu[s].orig \cap SetOf(rooms, bu[s].gen)) \subseteq bu[s].visited]_vars

\* C9: a session whose handler has ended is in no subscriber set.
C9_EndedHandlerHasLeft ==
    \A s \in Sessions : Ended(s) => s \notin rooms.members

\* C10: once every handler that joined the room has ended, the room has no
\* pty_processes entry and no child that was not killed.  (Only a handler
\* tears a room down, so an entry that is left then stays.)
C10_ProcessTerminated ==
    (/\ \A s \in Sessions : pc[s] \in {"idle", "done", "crashed"}
     /\ \E s \in Sessions : Ended(s))
       => (~pty_processes.present /\ Unkilled = {})

-----------------------------------------------------------------------------
(* The end of the shell and the messages of the receive loop.              *)

\* In this step pump p reads end-of-file or an I/O error from the PTY of a
\* child that has exited, and stops.
ExitObserved(p) ==
    /\ pump[p].pc = "wait" /\ pump'[p].pc = "ended"
    /\ FdOpen(pump[p].fd)
    /\ child[pty_processes.pid] = "exited"

\* C11: when the pump observes that the child has exited, the pump stops
\* and the room's process is torn down as on the departure of the last
\* subscriber: the child is signalled, the master closed and the
\* pty_processes entry removed.
C11_ExitTearsDown ==
    [][\A p \in Pids :
         ExitObserved(p) =>
            /\ ~pty_processes'.present
            /\ child'[pty_processes.pid] = "killed"]_vars

\* In this step a message of session s is taken from receive_text.
Received(s) == last' # last /\ last'.s = s

\* In this step os.write or ioctl raises on a message of session s.
IOErrorRaised(s) ==
    /\ Received(s)
    /\ last'.type \in {"input", "resize"}
    /\ last'.res = "raised"
    /\ pty_processes.present

\* C12: an I/O error raised by the write or the resize of a PTY whose child
\* has exited is not surfaced to the session that sent the message: the
\* session goes on to its next receive_text and stays a subscriber.
C12_IOErrorNotSurfaced ==
    [][\A s \in Sessions :
         IOErrorRaised(s) =>
            /\ pc'[s] = "recv"
            /\ s \in rooms.members => s \in rooms'.members]_vars

\* C13: a malformed message is dropped: the session that sent it stays in
\* the subscriber set and goes on to its next receive_text.
C13_MalformedDropped ==
    [][\A s \in Sessions :
         (Received(s) /\ last'.type = "malformed") =>
            /\ pc'[s] = "recv"
            /\ s \in rooms.members => s \in rooms'.members]_vars

\* C14: an input or resize message that arrives while the room has no
\* pty_processes entry is ignored: nothing is written or resized, rooms and
\* pty_processes do not change, and no handler moves.
C14_IgnoredWithoutProcess ==
    [][\A s \in Sessions :
         (Received(s) /\ last'.type \in {"input", "resize"} /\ ~pty_processes.present) =>
            /\ last'.res = "ignored"
            /\ UNCHANGED <<rooms, pty_processes, pc, bu, pump, child, winsize>>]_vars

\* A message was ignored, and the session that sent it is still receiving.
C14_Witness ==
    /\ last.res = "ignored"
    /\ ~pty_processes.present
    /\ pc[last.s] = "recv"

\* C15: resize is last-writer-wins and idempotent: a resize message that
\* arrives while the room has a process entry whose child runs is applied
\* without error, whoever sent it and whatever the size was before, and the
\* size of the PTY is then the size of that message.
C15_ResizeLastWriterWins ==
    [][\A s \in Sessions :
         (/\ Received(s) /\ last'.type = "resize"
          /\ pty_processes.present /\ child[pty_processes.pid] = "running") =>
            /\ last'.res = "applied"
            /\ winsize' = last'.arg]_vars

\* A resize has replaced a different size that an earlier resize had set.
C15_Witness ==
    /\ last.type = "resize" /\ last.res = "applied"
    /\ last.prev \in Sizes \ {last.arg}
    /\ winsize = last.arg

-----------------------------------------------------------------------------
(* Room instances: the set object and the process of one life of the name. *)

\* In this step pty.openpty() or os.fork() raises in the handler of s.
SpawnFailed(s) == pc[s] = "idle" /\ pc'[s] = "crashed"

\* C16: a spawn failure is confined to the join attempt: after it the room
\* has no pty_processes entry and the joiner that failed is not in the
\* subscriber set.
C16_SpawnFailureConfined ==
    [][\A s \in Sessions :
         SpawnFailed(s) =>
            /\ ~pty_processes'.present
            /\ s \notin rooms'.members]_vars

\* C17: while a room name stays in the registry with the same set object,
\* its pty_processes entry, once set, is never overwritten: no later join
\* replaces the pid or the master of the room.
C17_ProcessNeverReplaced ==
    [][(/\ rooms.present /\ rooms'.present /\ rooms'.gen = rooms.gen
        /\ pty_processes.present)
           => pty_processes' = pty_processes]_vars

\* Two sessions have joined the first room instance one after the other
\* and both are receiving: the entry is still that of the first fork.
C17_Witness ==
    /\ pc[1] = "recv" /\ pc[2] = "recv"
    /\ joined[1] = 1 /\ joined[2] = 1
    /\ rooms.present /\ rooms.gen = 1
    /\ pty_processes.present /\ pty_processes.pid = 1

\* The read_pty tasks that have not returned.
Running == {p \in Pids : pump[p].pc \in {"wait", "send"}}

\* C18: at most one read_pty task runs for the room name in every state,
\* also when the room is torn down and created again before the pump of
\* the earlier instance has seen the teardown.
C18_OnePumpPerRoom == Cardinality(Running) <= 1

\* C19: once a room instance is torn down (its child killed, its master
\* closed, its entries deleted), the pump of that instance reads nothing
\* more and broadcasts nothing more: the only step it takes is its end.
C19_TeardownStopsPump ==
    [][\A p \in Pids :
         (child[p] = "killed" /\ pump'[p] # pump[p]) =>
            /\ pump'[p].pc = "ended"
            /\ nread' = nread]_vars

\* C20: the handler that tears a room down joined the instance it tears
\* down: the set object it deletes is the one it was added to.
C20_NoStaleRemoval ==
    [][\A s \in Sessions :
         (TornDown /\ pc'[s] # pc[s]) => joined[s] = rooms.gen]_vars

-----------------------------------------------------------------------------
(* Operations on rooms that are gone, and operations that overlap.         *)

\* The room instance that session s joined is still registered.
InstanceLives(s) == rooms.present /\ rooms.gen = joined[s]

\* C21: no message acts on a room that is gone: an input of a session whose
\* room instance was torn down is written to no PTY, in particular not to
\* the PTY of a later instance of the same name.
C21_NoActionOnGoneRoom ==
    [][\A s \in Sessions :
         (Received(s) /\ ~InstanceLives(s)) => last'.res # "applied"]_vars

\* The operations in progress: the count broadcasts of joins and leaves
\* and the output broadcasts that are suspended in a send.
InProgress ==
    Cardinality({s \in Sessions : InUsers(s)})
       + Cardinality({p \in Pids : pump[p].pc = "send"})

\* C22: the operations on a room are serialized: a join, a leave or an
\* output broadcast begins only when no other is in progress, so their
\* effects never interleave.
C22_Serialized == InProgress <= 1

\* C23: the leave of a session never raises: from the receive loop on, the
\* handler reaches its end through the finally block without an exception
\* of the finally block itself.
C23_LeaveNeverRaises ==
    [][\A s \in Sessions :
         pc[s] \in {"recv", "leave_bu"} => pc'[s] # "crashed"]_vars

\* C24: output is passed through opaquely: the text sent to a subscriber,
\* chunk after chunk, is the bytes that were read, whatever the bytes are
\* and wherever the reads cut them.
C24_OutputOpaque == Encode(delivered) = consumed

\* In this step the handler of s enters its finally block although s is
\* in no subscriber set: a failed send dropped it before.
LeavesAgain(s) ==
    /\ pc[s] = "recv" /\ pc'[s] # "recv"
    /\ s \notin rooms.members

\* C25: a leave is idempotent: the leave of a session that is no longer in
\* the subscriber set leaves the set of the others as it is, and when the
\* room that the session joined was torn down already it tears nothing
\* down and kills nothing again.
C25_LeaveIdempotent ==
    [][\A s \in Sessions :
         LeavesAgain(s) =>
            /\ rooms'.members = rooms.members
            /\ ~InstanceLives(s) => (~TornDown /\ child' = child)]_vars

\* In this step pump p ends in the middle of a broadcast although its
\* shell runs and its room is registered.
PumpAborted(p) ==
    /\ pump[p].pc = "send" /\ pump'[p].pc = "ended"
    /\ child[p] = "running"
    /\ pty_processes'.present /\ pty_processes'.pid = p

\* C26: the pump of a room whose shell runs is ended by nothing but the
\* exit of the shell and the teardown of the room: no join or leave that
\* changes the subscriber set during a broadcast stops it.
C26_PumpNeverAborted ==
    [][\A p \in Pids : ~PumpAborted(p)]_vars

\* C27: the teardown is best-effort step by step: the step that deletes
\* the room's entries removes the pty_processes entry and closes the
\* master, also when signalling the child fails.
C27_TeardownBestEffort ==
    [][(TornDown /\ pty_processes.present) =>
          /\ ~pty_processes'.present
          /\ pty_processes.fd \notin leaked']_vars

-----------------------------------------------------------------------------
(* The two registries.                                                     *)

\* The subscribers whose handler has joined and not begun to leave.
Subscribed == {s \in rooms.members : pc[s] \in {"join_bu", "recv"}}

\* C28: the first join makes the room active in one step: at every await
\* a room that holds a subscriber whose join did not fail has its
\* pty_processes entry and the pump task of that entry.
C28_JoinIsAtomic ==
    Subscribed # {} =>
       /\ pty_processes.present
       /\ pump[pty_processes.pid].pc # "none"

\* The first joiner is still suspended in the first send of its join when
\* a second handler joins: it finds the entry of the first fork and the
\* pump of that entry, and forks nothing.
C28_Witness ==
    /\ pc[1] = "join_bu" /\ bu[1].visited = {1}
    /\ pc[2] = "join_bu"
    /\ rooms.members = {1, 2}
    /\ pty_processes.present /\ pty_processes.pid = 1
    /\ pump[1].pc = "wait" /\ child[2] = "none"

\* C29: a room name has a pty_processes entry only if it has a rooms entry.
C29_RegistryConsistent == pty_processes.present => rooms.present

\* A room with a process was torn down: both entries are gone.
C29_Witness ==
    /\ child[1] = "killed"
    /\ ~rooms.present /\ ~pty_processes.present

\* C30: only the current subscribers drive the shell: an input or a resize
\* is applied to the room's PTY only when the session that sent it is in
\* the room's subscriber set.
C30_OnlySubscribersDrive ==
    [][\A s \in Sessions :
         (Received(s) /\ last'.res = "applied") => s \in rooms.members]_vars

\* C31: every registered process has a pump: while the room name has a
\* pty_processes entry, a read_pty task of that name is running.
C31_ProcessHasPump == pty_processes.present => Running # {}

\* The market_hopper task has ended with the RuntimeError of the set
\* iterator; nothing awaits the task before shutdown.
HopperRaised == hopper.pc = "raised"

\* C32: for as long as burrow_closing is unset the market_hopper task is
\* alive (between two cycles or in a send of its broadcast), whatever
\* connects, disconnects or fails to receive during a broadcast.
C32_HopperKeepsHopping == ~burrow_closing => ~HopperRaised

\* C33: metrics.rabbits_connected is the number of connections in warren
\* (no handler is ever between its update of the pool and its update of
\* the counter: the two are one step).
C33_CountIsPoolSize == rabbits_connected = Cardinality(warren)

\* The production numbers of the most recent min(n, maxlen) of n hops, in
\* production order.
MostRecent(n) ==
    LET k == IF n < maxlen THEN n ELSE maxlen
    IN  [i \in 1..k |-> n - k + i]

\* C34: hop_history never holds more than 100 entries, and after n cycles
\* it holds the most recent min(n, 100) hops in production order.
C34_RingBuffer ==
    /\ Len(hop_history) <= maxlen
    /\ hop_history = MostRecent(hops)

\* A 101st hop was appended to the full buffer and the oldest was evicted.
C34_Witness ==
    /\ hops = maxlen + 1
    /\ Len(hop_history) = maxlen
    /\ Head(hop_history) = 2
    /\ hop_history[maxlen] = maxlen + 1

====
